---- MODULE Spec2Model ----
(***************************************************************************)
(* Model of the CloneSet workload controller of flagger                    *)
(* (pkg/canary/cloneset_controller.go and the CloneSet readiness code in   *)
(* pkg/canary/factory.go).                                                 *)
(*                                                                         *)
(* The cluster is a store of CloneSet objects addressed by name.  Every    *)
(* controller operation is one action: it reads the store, issues its API  *)
(* calls in source order and leaves the store it wrote.  The calls issued  *)
(* by the last operation, its error and the store it started from are      *)
(* kept as history so that properties can speak about one call.            *)
(***************************************************************************)
EXTENDS Integers, Sequences, FiniteSets, TLC

VARIABLES
    store,            \* name -> CloneSet object: the objects that exist in the cluster
    primaryConfigs,   \* names of the primary config copies made by the ConfigTracker
    last,             \* the last operation: name, inputs, error, result
    calls,            \* the calls issued by the last operation, in order
    pre,              \* the store before the last operation
    factory,          \* the Factory the controllers are made from
    inflight          \* the operation that has read its object and not yet written it

vars == <<store, primaryConfigs, last, calls, pre, factory, inflight>>

(***************************************************************************)
(* Bounds                                                                  *)
(***************************************************************************)
MaxReplicas == 1
MaxGeneration == 2

(***************************************************************************)
(* Names and constants of the program                                      *)
(***************************************************************************)
TargetName == "demo"
PrimarySuffix == "-primary"
primaryNameOf(targetName) == targetName \o PrimarySuffix

Marker == "flagger.app/scale-to-zero"
cloneSetScaleDownNodeSelector == (Marker :> "true")

\* c.labels: the candidate selector label keys, in priority order
labels == <<"app", "name">>

(***************************************************************************)
(* Go maps.  A map is nil or allocated; reading and delete treat the two   *)
(* alike, a structural hash does not.                                      *)
(***************************************************************************)
NoEntries == [k \in {} |-> ""]
NilMap == [isNil |-> TRUE, kv |-> NoEntries]
makeMap == [isNil |-> FALSE, kv |-> NoEntries]
MapOf(f) == [isNil |-> FALSE, kv |-> f]

\* m[k] = v on an allocated map
mapSet(m, k, v) ==
    [isNil |-> FALSE,
     kv |-> [x \in DOMAIN m.kv \cup {k} |-> IF x = k THEN v ELSE m.kv[x]]]

\* for k, v := range src { dst[k] = v }
RECURSIVE mapCopyKeys(_, _, _)
mapCopyKeys(dst, src, keys) ==
    IF keys = {} THEN dst
    ELSE LET k == CHOOSE x \in keys : TRUE
         IN mapCopyKeys(mapSet(dst, k, src[k]), src, keys \ {k})

mapCopyInto(dst, src) == mapCopyKeys(dst, src, DOMAIN src)

\* delete(m, k): no-op on a nil map and on an absent key
mapDelete(m, k) ==
    IF m.isNil THEN m
    ELSE [isNil |-> FALSE, kv |-> [x \in DOMAIN m.kv \ {k} |-> m.kv[x]]]

\* for k := range keys { delete(m, k) }
RECURSIVE mapDeleteKeys(_, _)
mapDeleteKeys(m, keys) ==
    IF keys = {} THEN m
    ELSE LET k == CHOOSE x \in keys : TRUE
         IN mapDeleteKeys(mapDelete(m, k), keys \ {k})

HasKey(m, k) == k \in DOMAIN m.kv

\* equality of maps that takes nil and empty as the same map
SameEntries(m1, m2) == m1.kv = m2.kv

(***************************************************************************)
(* Go pointers to int32: nil, or an address holding a value.  `==` on      *)
(* pointers compares addresses.                                            *)
(***************************************************************************)
NilPtr == [addr |-> "nil", val |-> 0]
\* the pointer held by the Spec.Replicas field of a fetched object;
\* the model stores the field as <<>> (nil) or <<n>>
replicasPtr(obj) ==
    IF obj.replicas = <<>> THEN NilPtr
    ELSE [addr |-> "fetched.Spec.Replicas", val |-> obj.replicas[1]]
\* int32p(i): the address of a fresh copy of i
int32p(i) == [addr |-> "int32p.i", val |-> i]
ptrEq(p, q) == p.addr = q.addr

(***************************************************************************)
(* CloneSet objects.  Only the fields the controller reads or writes are   *)
(* kept; status is not stored: it is written by the CloneSet's own         *)
(* controller at any time and is an input of every readiness check.        *)
(***************************************************************************)
Images == {"v0", "v1", "v2"}
ConfigNames == {"app-config"}
\* values of Spec.UpdateStrategy.Type; "" is an undeclared strategy
RecreateCloneSetUpdateStrategyType == "ReCreate"
InPlaceIfPossible == "InPlaceIfPossible"
StrategyTypes == {"", RecreateCloneSetUpdateStrategyType, InPlaceIfPossible}

\* the node selectors a target can start with
InitialNodeSelectors ==
    { NilMap, makeMap, MapOf("disk" :> "ssd"),
      MapOf(Marker :> "true"), MapOf(("disk" :> "ssd") @@ (Marker :> "true")) }

\* the selector match-labels a target can declare
InitialMatchLabels ==
    { NoEntries, ("app" :> "demo"), ("name" :> "demo-n"),
      ("app" :> "demo") @@ ("name" :> "demo-n") }

\* the id makeAnnotations draws
NewId == "uuid-new"

\* a target CloneSet
Target(ns, us, ml) ==
    [ name                 |-> TargetName,
      replicas             |-> <<1>>,
      minReadySeconds      |-> 5,
      revisionHistoryLimit |-> <<10>>,
      updateStrategy       |-> us,
      matchLabels          |-> ml,
      tplLabels            |-> ("app" :> "demo") @@ ("tier" :> "web"),
      tplAnnotations       |-> NoEntries,
      podSpec              |-> [image |-> "v1", configRef |-> "app-config", nodeSelector |-> ns],
      owner                |-> "" ]

\* a primary left by an earlier rollout and scaled by its operator
InitialPrimaries ==
    { [ name                 |-> primaryNameOf(TargetName),
        replicas             |-> r,
        minReadySeconds      |-> 0,
        revisionHistoryLimit |-> <<>>,
        updateStrategy       |-> InPlaceIfPossible,
        matchLabels          |-> ("app" :> "demo-primary"),
        tplLabels            |-> ("app" :> "demo-primary"),
        tplAnnotations       |-> ("flagger-id" :> "uuid-old"),
        podSpec              |-> [image |-> "v0", configRef |-> "", nodeSelector |-> NilMap],
        owner                |-> "canary" ]
      : r \in {<<>>} \cup { <<n>> : n \in 0..MaxReplicas } }

\* the conditions a CloneSet's status can list: none, or the availability
\* condition reporting too few available replicas since time 0
MinimumReplicasUnavailable ==
    [type |-> "Available", status |-> "False",
     reason |-> "MinimumReplicasUnavailable", lastTransitionTime |-> 0]
Conditions == { <<>>, <<MinimumReplicasUnavailable>> }

\* the status an API read can return
Statuses ==
    [ generation         : 1..MaxGeneration,
      observedGeneration : 1..MaxGeneration,
      updatedReplicas    : 0..MaxReplicas,
      replicas           : 0..MaxReplicas,
      availableReplicas  : 0..MaxReplicas,
      conditions         : Conditions ]
NoStatus ==
    [generation |-> 0, observedGeneration |-> 0, updatedReplicas |-> 0,
     replicas |-> 0, availableReplicas |-> 0, conditions |-> <<>>]

Phases == {"", "Initializing", "Progressing", "Promoting", "Finalizing", "Succeeded", "Failed"}
CanaryPhaseInitializing == "Initializing"

(***************************************************************************)
(* The cluster API as the controller sees it.  A call context carries the  *)
(* store, the config copies, the calls issued so far and the error the     *)
(* operation returns ("" is nil).  `faulty` makes the call fail with a     *)
(* transient API error.                                                    *)
(***************************************************************************)
NoObject == [name |-> ""]
NewCtx == [store |-> store, configs |-> primaryConfigs, calls |-> <<>>, err |-> ""]
\* the handler made a call that returned e
Logged(ctx, call, name, e) ==
    [ctx EXCEPT !.calls = Append(@, [call |-> call, name |-> name, err |-> e])]
Fail(ctx, e) == [ctx EXCEPT !.err = e]

apiGet(ctx, name, faulty) ==
    IF faulty
    THEN [ctx |-> Logged(ctx, "Get", name, "Unavailable"), obj |-> NoObject, err |-> "Unavailable"]
    ELSE IF name \notin DOMAIN ctx.store
    THEN [ctx |-> Logged(ctx, "Get", name, "NotFound"), obj |-> NoObject, err |-> "NotFound"]
    ELSE [ctx |-> Logged(ctx, "Get", name, ""), obj |-> ctx.store[name], err |-> ""]

apiUpdate(ctx, obj, faulty) ==
    IF faulty
    THEN [ctx |-> Logged(ctx, "Update", obj.name, "Unavailable"), err |-> "Unavailable"]
    ELSE IF obj.name \notin DOMAIN ctx.store
    THEN [ctx |-> Logged(ctx, "Update", obj.name, "NotFound"), err |-> "NotFound"]
    ELSE [ctx |-> [Logged(ctx, "Update", obj.name, "")
                      EXCEPT !.store = [@ EXCEPT ![obj.name] = obj]],
          err |-> ""]

apiCreate(ctx, obj, faulty) ==
    IF faulty
    THEN [ctx |-> Logged(ctx, "Create", obj.name, "Unavailable"), err |-> "Unavailable"]
    ELSE IF obj.name \in DOMAIN ctx.store
    THEN [ctx |-> Logged(ctx, "Create", obj.name, "AlreadyExists"), err |-> "AlreadyExists"]
    ELSE [ctx |-> [Logged(ctx, "Create", obj.name, "")
                      EXCEPT !.store = (obj.name :> obj) @@ @],
          err |-> ""]

\* faulty variant: every lookup result is taken for not-found
IsNotFoundAlways(e) == TRUE

\* errors.IsNotFound(err)
IsNotFound(e) == e = "NotFound"

(***************************************************************************)
(* ScaleToZero, ScaleFromZero, Finalize                                    *)
(***************************************************************************)
\* faulty variant: the new map holds the marker alone
ScaleToZeroCopyMarkerOnly(cloneset) ==
    [cloneset EXCEPT !.podSpec.nodeSelector =
        mapCopyInto(makeMap, cloneSetScaleDownNodeSelector)]

\* the copy ScaleToZero writes: a new map holding the old entries and the marker
ScaleToZeroCopy(cloneset) ==
    [cloneset EXCEPT !.podSpec.nodeSelector =
        mapCopyInto(mapCopyInto(makeMap, cloneset.podSpec.nodeSelector.kv),
                    cloneSetScaleDownNodeSelector)]

\* faulty variant: the scale-down is aimed at the primary
scaleToZeroTargetNamePrimary == primaryNameOf(TargetName)

\* targetName := cd.Spec.TargetRef.Name
scaleToZeroTargetName == TargetName

ScaleToZeroCall(ctx, fail) ==
    LET g == apiGet(ctx, scaleToZeroTargetName, fail = "ScaleToZero.Get")
    IN IF g.err # "" THEN Fail(g.ctx, "cloneset get query error")
       ELSE LET u == apiUpdate(g.ctx, ScaleToZeroCopy(g.obj), fail = "ScaleToZero.Update")
            IN IF u.err # "" THEN Fail(u.ctx, "updating cloneset failed") ELSE u.ctx

\* faulty variant: the whole node selector is cleared
ScaleFromZeroCopyClearing(cloneset) ==
    [cloneset EXCEPT !.podSpec.nodeSelector = makeMap]

\* the copy ScaleFromZero writes: the marker key deleted in place
ScaleFromZeroCopy(cloneset) ==
    [cloneset EXCEPT !.podSpec.nodeSelector =
        mapDeleteKeys(@, DOMAIN cloneSetScaleDownNodeSelector)]

ScaleFromZeroCall(ctx, fail) ==
    LET g == apiGet(ctx, TargetName, fail = "ScaleFromZero.Get")
    IN IF g.err # "" THEN Fail(g.ctx, "cloneset query error")
       ELSE LET u == apiUpdate(g.ctx, ScaleFromZeroCopy(g.obj), fail = "ScaleFromZero.Update")
            IN IF u.err # "" THEN Fail(u.ctx, "scaling up cloneset failed") ELSE u.ctx

FinalizeCall(ctx, fail) ==
    LET r == ScaleFromZeroCall(ctx, fail)
    IN IF r.err # "" THEN Fail(r, "ScaleFromZero failed") ELSE r

(***************************************************************************)
(* ConfigTracker (external collaborator, consumed through its contract)    *)
(* and the helpers of pkg/canary shared by all workload kinds.             *)
(***************************************************************************)
\* GetTargetConfigs: the config objects the target's pod spec references
GetTargetConfigs(ctx) ==
    LET ref == ctx.store[TargetName].podSpec.configRef
    IN IF ref = "" THEN {} ELSE {ref}

\* CreatePrimaryConfigs: makes the primary copy of every referenced config
CreatePrimaryConfigs(ctx, configRefs) ==
    [ctx EXCEPT !.configs = @ \cup { primaryNameOf(c) : c \in configRefs }]

\* ApplyPrimaryConfigs: the pod spec with every tracked reference rewritten
\* to the primary copy; everything else, the node selector included, is kept
ApplyPrimaryConfigs(podSpec, configRefs) ==
    [podSpec EXCEPT !.configRef =
        IF @ \in configRefs THEN primaryNameOf(@) ELSE @]

\* makePrimaryLabels: the labels without `label`, plus label = labelValue
makePrimaryLabels(lbls, labelValue, label) ==
    [k \in DOMAIN lbls \cup {label} |-> IF k = label THEN labelValue ELSE lbls[k]]

\* makeAnnotations: the annotations with a freshly drawn flagger-id
makeAnnotations(annotations, id) ==
    [k \in DOMAIN annotations \cup {"flagger-id"} |->
        IF k = "flagger-id" THEN id ELSE annotations[k]]

\* computeHash: a structural hash; a nil map and an empty map hash differently
computeHash(template) == template

\* hasSpecChanged: the template's hash against the recorded one
\* (applied is <<>> for an empty record, else <<hash>>)
hasSpecChanged(applied, template) ==
    IF applied = <<>> THEN TRUE ELSE applied[1] # computeHash(template)

(***************************************************************************)
(* getSelectorLabel                                                        *)
(***************************************************************************)
RECURSIVE getSelectorLabelFrom(_, _)
getSelectorLabelFrom(cloneSet, i) ==
    IF i > Len(labels)
    THEN [label |-> "", value |-> "", err |-> "spec.selector.matchLabels must contain one of labels"]
    ELSE IF labels[i] \in DOMAIN cloneSet.matchLabels
    THEN [label |-> labels[i], value |-> cloneSet.matchLabels[labels[i]], err |-> ""]
    ELSE getSelectorLabelFrom(cloneSet, i + 1)

\* faulty variant: the last candidate key present wins
getSelectorLabelLastMatch(cloneSet) ==
    LET present == { i \in 1..Len(labels) : labels[i] \in DOMAIN cloneSet.matchLabels }
    IN IF present = {}
       THEN [label |-> "", value |-> "", err |-> "spec.selector.matchLabels must contain one of labels"]
       ELSE LET i == CHOOSE j \in present : \A k \in present : k <= j
            IN [label |-> labels[i], value |-> cloneSet.matchLabels[labels[i]], err |-> ""]

getSelectorLabel(cloneSet) == getSelectorLabelFrom(cloneSet, 1)

(***************************************************************************)
(* createPrimaryCloneSet                                                   *)
(***************************************************************************)
\* the update strategy check that precedes the creation
strategyRejected(cloneSet) ==
    /\ cloneSet.updateStrategy # ""
    /\ cloneSet.updateStrategy # RecreateCloneSetUpdateStrategyType

\* the primary object handed to Create
newPrimaryCloneSet(canaryCloneset, sel, configRefs, annotations) ==
    LET primaryLabelValue == sel.value \o PrimarySuffix
    IN [ name                 |-> primaryNameOf(TargetName),
         replicas             |-> <<>>,
         minReadySeconds      |-> canaryCloneset.minReadySeconds,
         revisionHistoryLimit |-> canaryCloneset.revisionHistoryLimit,
         updateStrategy       |-> canaryCloneset.updateStrategy,
         matchLabels          |-> (sel.label :> primaryLabelValue),
         tplLabels            |-> makePrimaryLabels(canaryCloneset.tplLabels, primaryLabelValue, sel.label),
         tplAnnotations       |-> annotations,
         podSpec              |-> ApplyPrimaryConfigs(canaryCloneset.podSpec, configRefs),
         owner                |-> "canary" ]

createPrimaryCloneSet(ctx, fail, id) ==
    LET g == apiGet(ctx, TargetName, fail = "createPrimary.GetTarget")
    IN IF g.err # "" THEN Fail(g.ctx, "cloneset get query error")
       ELSE IF strategyRejected(g.obj) THEN Fail(g.ctx, "must have RollingUpdate strategy")
       ELSE LET sel == getSelectorLabel(g.obj)
            IN IF sel.err # "" THEN Fail(g.ctx, "getSelectorLabel failed")
               ELSE LET p == apiGet(g.ctx, primaryNameOf(TargetName), fail = "createPrimary.GetPrimary")
                    IN IF ~IsNotFound(p.err) THEN p.ctx
                       ELSE IF fail = "GetTargetConfigs"
                       THEN Fail(Logged(p.ctx, "GetTargetConfigs", "", "Unavailable"), "GetTargetConfigs failed")
                       ELSE LET configRefs == GetTargetConfigs(p.ctx)
                                c1 == Logged(p.ctx, "GetTargetConfigs", "", "")
                            IN IF fail = "CreatePrimaryConfigs"
                               THEN Fail(Logged(c1, "CreatePrimaryConfigs", "", "Unavailable"), "CreatePrimaryConfigs failed")
                               ELSE LET c2 == Logged(CreatePrimaryConfigs(c1, configRefs), "CreatePrimaryConfigs", "", "")
                                    IN IF fail = "makeAnnotations" THEN Fail(c2, "makeAnnotations failed")
                                       ELSE LET obj == newPrimaryCloneSet(g.obj, sel, configRefs,
                                                           makeAnnotations(g.obj.tplAnnotations, id))
                                                c == apiCreate(c2, obj, fail = "createPrimary.Create")
                                            IN IF c.err # "" THEN Fail(c.ctx, "creating cloneset failed")
                                               ELSE c.ctx

(***************************************************************************)
(* Readiness                                                               *)
(***************************************************************************)
\* a status condition; the lookup below finds none
NoCondition == [isNil |-> TRUE, status |-> "", reason |-> "", lastTransitionTime |-> 0]
getCloneSetCondition == NoCondition

\* faulty variant: old replicas are looked at before the updated count
isCloneSetReadyReordered(cloneSet, st, deadline, now) ==
    IF st.generation <= st.observedGeneration
    THEN LET declared == replicasPtr(cloneSet)
         IN IF st.replicas > st.updatedReplicas
            THEN [retriable |-> TRUE, err |-> "old replicas are pending termination"]
            ELSE IF declared # NilPtr /\ st.updatedReplicas < declared.val
            THEN [retriable |-> TRUE, err |-> "new replicas have been updated"]
            ELSE IF st.availableReplicas < st.updatedReplicas
            THEN [retriable |-> TRUE, err |-> "updated replicas are available"]
            ELSE [retriable |-> TRUE, err |-> ""]
    ELSE [retriable |-> TRUE, err |-> "observed generation less then desired generation"]

\* isCloneSetReady on a fetched object with status st, at time now;
\* returns the retriable flag and the error ("" is nil)
isCloneSetReady(cloneSet, st, deadline, now) ==
    IF st.generation <= st.observedGeneration
    THEN LET progress == getCloneSetCondition
             available == getCloneSetCondition
             retriable ==
                 IF /\ ~progress.isNil
                    /\ ~available.isNil
                    /\ available.status = "False"
                    /\ available.reason = "MinimumReplicasUnavailable"
                 THEN ~(available.lastTransitionTime + deadline < now)
                 ELSE TRUE
             declared == replicasPtr(cloneSet)
         IN IF ~progress.isNil /\ progress.reason = "ProgressDeadlineExceeded"
            THEN [retriable |-> FALSE, err |-> "exceeded its progress deadline"]
            ELSE IF declared # NilPtr /\ st.updatedReplicas < declared.val
            THEN [retriable |-> retriable, err |-> "new replicas have been updated"]
            ELSE IF st.replicas > st.updatedReplicas
            THEN [retriable |-> retriable, err |-> "old replicas are pending termination"]
            ELSE IF st.availableReplicas < st.updatedReplicas
            THEN [retriable |-> retriable, err |-> "updated replicas are available"]
            ELSE [retriable |-> TRUE, err |-> ""]
    ELSE [retriable |-> TRUE, err |-> "observed generation less then desired generation"]

\* cd.GetProgressDeadlineSeconds()
ProgressDeadlineSeconds == 1

IsPrimaryReadyCall(ctx, fail, st, now) ==
    LET primaryName == primaryNameOf(TargetName)
        g == apiGet(ctx, primaryName, fail = "IsPrimaryReady.Get")
    IN IF g.err # "" THEN Fail(g.ctx, "cloneset get query error")
       ELSE LET r == isCloneSetReady(g.obj, st, ProgressDeadlineSeconds, now)
            IN IF r.err # "" THEN Fail(g.ctx, "not ready: " \o r.err)
               ELSE IF ptrEq(replicasPtr(g.obj), int32p(0))
               THEN Fail(g.ctx, "halt advancement: primary cloneset is scaled to zero")
               ELSE g.ctx

\* returns the context and the retryable flag
IsCanaryReadyCall(ctx, fail, st, now) ==
    LET g == apiGet(ctx, TargetName, fail = "IsCanaryReady.Get")
    IN IF g.err # "" THEN [ctx |-> Fail(g.ctx, "cloneset get query error"), retryable |-> TRUE]
       ELSE LET r == isCloneSetReady(g.obj, st, ProgressDeadlineSeconds, now)
            IN IF r.err # ""
               THEN [ctx |-> Fail(g.ctx, "canary cloneset not ready: " \o r.err), retryable |-> r.retriable]
               ELSE [ctx |-> g.ctx, retryable |-> TRUE]

(***************************************************************************)
(* Initialize                                                              *)
(***************************************************************************)
\* faulty variant: every phase is taken for the initial one
InitialPhaseAlways(cd) == TRUE

InitialPhase(cd) == cd.phase = "" \/ cd.phase = CanaryPhaseInitializing

\* faulty variant: the error of the readiness check is dropped and the scale-down goes on
InitializeScaleDownUngated(r1, cd, fail, st, now) ==
    IF ~InitialPhase(cd) THEN r1
    ELSE LET r2 == IF cd.skip THEN r1
                   ELSE LET q == IsPrimaryReadyCall(r1, fail, st, now)
                        IN Logged(q, "IsPrimaryReady", primaryNameOf(TargetName), q.err)
             r3 == ScaleToZeroCall([r2 EXCEPT !.err = ""], fail)
         IN IF r3.err # "" THEN Fail(r3, "ScaleToZero failed: " \o r3.err) ELSE r3

\* what Initialize does once the primary exists
InitializeScaleDown(r1, cd, fail, st, now) ==
    IF ~InitialPhase(cd) THEN r1
    ELSE LET r2 == IF cd.skip THEN r1
                   ELSE LET q == IsPrimaryReadyCall(r1, fail, st, now)
                        IN Logged(q, "IsPrimaryReady", primaryNameOf(TargetName), q.err)
         IN IF r2.err # "" THEN r2
            ELSE LET r3 == ScaleToZeroCall(r2, fail)
                 IN IF r3.err # "" THEN Fail(r3, "ScaleToZero failed: " \o r3.err) ELSE r3

InitializeCall(ctx, cd, fail, id, st, now) ==
    LET c == createPrimaryCloneSet(ctx, fail, id)
        r1 == Logged(c, "createPrimaryCloneSet", primaryNameOf(TargetName), c.err)
    IN IF r1.err # "" THEN Fail(r1, "createPrimaryCloneSet failed: " \o r1.err)
       ELSE InitializeScaleDown(r1, cd, fail, st, now)

(***************************************************************************)
(* Promote                                                                 *)
(***************************************************************************)
\* faulty variant: the marker is left in the promoted node selector
PromoteCopyKeepingMarker(primary, canary, sel, configRefs, annotations) ==
    [primary EXCEPT
        !.minReadySeconds      = canary.minReadySeconds,
        !.revisionHistoryLimit = canary.revisionHistoryLimit,
        !.updateStrategy       = canary.updateStrategy,
        !.podSpec              = ApplyPrimaryConfigs(canary.podSpec, configRefs),
        !.tplAnnotations       = annotations,
        !.tplLabels            = makePrimaryLabels(canary.tplLabels, sel.value \o PrimarySuffix, sel.label)]

\* faulty variant: the copy is taken from the fetched target, so the update lands on it
PromoteCopyFromCanary(primary, canary, sel, configRefs, annotations) ==
    [canary EXCEPT
        !.podSpec              =
            LET applied == ApplyPrimaryConfigs(canary.podSpec, configRefs)
            IN [applied EXCEPT !.nodeSelector =
                    mapDeleteKeys(@, DOMAIN cloneSetScaleDownNodeSelector)],
        !.tplAnnotations       = annotations,
        !.tplLabels            = makePrimaryLabels(canary.tplLabels, sel.value \o PrimarySuffix, sel.label)]

\* the primary object handed to Update
PromoteCopy(primary, canary, sel, configRefs, annotations) ==
    [primary EXCEPT
        !.minReadySeconds      = canary.minReadySeconds,
        !.revisionHistoryLimit = canary.revisionHistoryLimit,
        !.updateStrategy       = canary.updateStrategy,
        !.podSpec              =
            LET applied == ApplyPrimaryConfigs(canary.podSpec, configRefs)
            IN [applied EXCEPT !.nodeSelector =
                    mapDeleteKeys(@, DOMAIN cloneSetScaleDownNodeSelector)],
        !.tplAnnotations       = annotations,
        !.tplLabels            = makePrimaryLabels(canary.tplLabels, sel.value \o PrimarySuffix, sel.label)]

\* faulty variant: a failed CreatePrimaryConfigs is not returned
PromoteConfigsUnchecked(ctx, fail) ==
    IF fail = "GetTargetConfigs"
    THEN Fail(Logged(ctx, "GetTargetConfigs", "", "Unavailable"), "GetTargetConfigs failed")
    ELSE LET c1 == Logged(ctx, "GetTargetConfigs", "", "")
         IN IF fail = "CreatePrimaryConfigs"
            THEN Logged(c1, "CreatePrimaryConfigs", "", "Unavailable")
            ELSE Logged(CreatePrimaryConfigs(c1, GetTargetConfigs(c1)), "CreatePrimaryConfigs", "", "")

\* the config promotion of Promote; returns the context, error set on failure
PromoteConfigs(ctx, fail) ==
    IF fail = "GetTargetConfigs"
    THEN Fail(Logged(ctx, "GetTargetConfigs", "", "Unavailable"), "GetTargetConfigs failed")
    ELSE LET c1 == Logged(ctx, "GetTargetConfigs", "", "")
         IN IF fail = "CreatePrimaryConfigs"
            THEN Fail(Logged(c1, "CreatePrimaryConfigs", "", "Unavailable"), "CreatePrimaryConfigs failed")
            ELSE Logged(CreatePrimaryConfigs(c1, GetTargetConfigs(c1)), "CreatePrimaryConfigs", "", "")

PromoteCall(ctx, fail, id) ==
    LET g == apiGet(ctx, TargetName, fail = "Promote.GetTarget")
    IN IF g.err # "" THEN Fail(g.ctx, "cloneset get query error")
       ELSE LET sel == getSelectorLabel(g.obj)
            IN IF sel.err # "" THEN Fail(g.ctx, "getSelectorLabel failed")
               ELSE LET p == apiGet(g.ctx, primaryNameOf(TargetName), fail = "Promote.GetPrimary")
                    IN IF p.err # "" THEN Fail(p.ctx, "cloneset get query error")
                       ELSE LET c == PromoteConfigs(p.ctx, fail)
                            IN IF c.err # "" THEN c
                               ELSE IF fail = "makeAnnotations" THEN Fail(c, "makeAnnotations failed")
                               ELSE LET primaryCopy == PromoteCopy(p.obj, g.obj, sel, GetTargetConfigs(c),
                                                                   makeAnnotations(g.obj.tplAnnotations, id))
                                        u == apiUpdate(c, primaryCopy, fail = "Promote.Update")
                                    IN IF u.err # "" THEN Fail(u.ctx, "updating cloneset template spec failed")
                                       ELSE u.ctx

(***************************************************************************)
(* Read-modify-write, step by step.  An operation writes a copy of the     *)
(* object it read, which carries the resourceVersion it was read at; the   *)
(* API server rejects the update when the stored object has changed since. *)
(* (An update that changes nothing leaves the resourceVersion as it is.)   *)
(***************************************************************************)
apiUpdateFetched(ctx, fetched, obj, faulty) ==
    IF ~faulty /\ obj.name \in DOMAIN ctx.store /\ ctx.store[obj.name] # fetched
    THEN [ctx |-> Logged(ctx, "Update", obj.name, "Conflict"), err |-> "Conflict"]
    ELSE apiUpdate(ctx, obj, faulty)

\* faulty variant: after a rejected update, the operation starts over
ScaleToZeroWriteRetrying(ctx, cloneset, fail) ==
    LET u == apiUpdateFetched(ctx, cloneset, ScaleToZeroCopy(cloneset), fail = "ScaleToZero.Update")
    IN IF u.err # "" THEN ScaleToZeroCall(u.ctx, fail) ELSE u.ctx

\* ScaleToZero from the copy on
ScaleToZeroWrite(ctx, cloneset, fail) ==
    LET u == apiUpdateFetched(ctx, cloneset, ScaleToZeroCopy(cloneset), fail = "ScaleToZero.Update")
    IN IF u.err # "" THEN Fail(u.ctx, "updating cloneset failed") ELSE u.ctx

\* ScaleFromZero from the copy on
ScaleFromZeroWrite(ctx, cloneset, fail) ==
    LET u == apiUpdateFetched(ctx, cloneset, ScaleFromZeroCopy(cloneset), fail = "ScaleFromZero.Update")
    IN IF u.err # "" THEN Fail(u.ctx, "scaling up cloneset failed") ELSE u.ctx

\* Promote from the config promotion on
PromoteWrite(ctx, canary, primary, fail, id) ==
    LET sel == getSelectorLabel(canary)
        c == PromoteConfigs(ctx, fail)
    IN IF c.err # "" THEN c
       ELSE IF fail = "makeAnnotations" THEN Fail(c, "makeAnnotations failed")
       ELSE LET primaryCopy == PromoteCopy(primary, canary, sel, GetTargetConfigs(c),
                                           makeAnnotations(canary.tplAnnotations, id))
                u == apiUpdateFetched(c, primary, primaryCopy, fail = "Promote.Update")
            IN IF u.err # "" THEN Fail(u.ctx, "updating cloneset template spec failed")
               ELSE u.ctx

(***************************************************************************)
(* HasTargetChanged, GetMetadata, HaveDependenciesChanged                  *)
(***************************************************************************)
\* the pod template of a CloneSet
templateOf(cloneSet) ==
    [labels |-> cloneSet.tplLabels, annotations |-> cloneSet.tplAnnotations, spec |-> cloneSet.podSpec]

\* faulty variant: a nil node selector is hashed as nil
hashedNodeSelectorKeepingNil(ns) ==
    mapDeleteKeys(ns, DOMAIN cloneSetScaleDownNodeSelector)

\* the node selector HasTargetChanged hashes: marker deleted, nil made empty
hashedNodeSelector(ns) ==
    LET stripped == mapDeleteKeys(ns, DOMAIN cloneSetScaleDownNodeSelector)
    IN IF stripped.isNil THEN makeMap ELSE stripped

\* the template HasTargetChanged hands to hasSpecChanged
hashedTemplate(canary) ==
    templateOf([canary EXCEPT !.podSpec.nodeSelector = hashedNodeSelector(@)])

\* returns the context and the answer
HasTargetChangedCall(ctx, fail, applied) ==
    LET g == apiGet(ctx, TargetName, fail = "HasTargetChanged.Get")
    IN IF g.err # "" THEN [ctx |-> Fail(g.ctx, "cloneset get query error"), changed |-> FALSE]
       ELSE [ctx |-> g.ctx, changed |-> hasSpecChanged(applied, hashedTemplate(g.obj))]

\* returns the context, the label and its value
GetMetadataCall(ctx, fail) ==
    LET g == apiGet(ctx, TargetName, fail = "GetMetadata.Get")
    IN IF g.err # "" THEN [ctx |-> Fail(g.ctx, "cloneset get query error"), label |-> "", value |-> ""]
       ELSE LET sel == getSelectorLabel(g.obj)
            IN IF sel.err # ""
               THEN [ctx |-> Fail(g.ctx, "getSelectorLabel failed"), label |-> "", value |-> ""]
               ELSE [ctx |-> g.ctx, label |-> sel.label, value |-> sel.value]

\* delegates to ConfigTracker.HasConfigChanged, whose answer is an input
HaveDependenciesChangedCall(ctx, fail, changed) ==
    IF fail = "HasConfigChanged"
    THEN [ctx |-> Fail(Logged(ctx, "HasConfigChanged", "", "Unavailable"), "HasConfigChanged failed"), changed |-> FALSE]
    ELSE [ctx |-> Logged(ctx, "HasConfigChanged", "", ""), changed |-> changed]

(***************************************************************************)
(* Inputs.  The canary descriptor is an input of every call: its phase and *)
(* its skip-analysis flag are drawn per call, and so is its recorded hash. *)
(* A readiness check reads a status and the clock.                         *)
(***************************************************************************)
MaxTime == 2
Times == 0..MaxTime
Canaries == [phase : Phases, skip : BOOLEAN]
NoInput == [phase |-> "", skip |-> FALSE]

AllReadinessInputs == [st : Statuses, now : Times]
ReplicasFields == {<<>>} \cup { <<n>> : n \in 0..MaxReplicas }
classify(r, in) == isCloneSetReady([replicas |-> r], in.st, ProgressDeadlineSeconds, in.now)

\* The status and the clock reach an operation only through isCloneSetReady
\* on the object it fetched: for every declared replica count, one input is
\* kept for every verdict isCloneSetReady returns on it.
ReadinessInputs ==
    [ r \in ReplicasFields |->
        { CHOOSE in \in AllReadinessInputs : classify(r, in) = v
          : v \in { classify(r, in) : in \in AllReadinessInputs } } ]
AnyReadinessInput == CHOOSE in \in AllReadinessInputs : TRUE

\* the inputs of a readiness check of the object `name`; a primary that
\* Initialize is about to create declares no replica count
ReadinessInputsOf(name) ==
    ReadinessInputs[IF name \in DOMAIN store THEN store[name].replicas ELSE <<>>]

\* the hash the descriptor layer records for a CloneSet: of its pod template
\* with the marker removed and a nil node selector made empty
recordedHash(cloneSet) ==
    computeHash(templateOf([cloneSet EXCEPT !.podSpec.nodeSelector =
        [isNil |-> FALSE, kv |-> [k \in DOMAIN @.kv \ {Marker} |-> @.kv[k]]]]))

\* the recorded hashes a descriptor can carry for the current target:
\* none, or the one recorded when the target ran image v1 or v2
AppliedSpecs ==
    {<<>>} \cup
    { <<recordedHash([store[TargetName] EXCEPT !.podSpec.image = i])>> : i \in {"v1", "v2"} }

(***************************************************************************)
(* Factory.  A factory holds the clients, the tracker, the candidate       *)
(* labels and the label prefixes; Controller builds the four controllers   *)
(* from them and returns the one of the kind asked for.                    *)
(***************************************************************************)
FactoryLabels == { <<>>, <<"app">>, <<"app", "name">>, <<"name", "app">> }
IncludeLabelPrefixes == { <<>>, <<"*">>, <<"app.kubernetes.io">>, <<"team", "env">> }
Kinds == {"DaemonSet", "Deployment", "Service", "CloneSet",
          "", "UnknownKind", "deployment", "StatefulSet"}

\* NewFactory
NewFactory(lbls, includeLabelPrefix) ==
    [ kubeClient         |-> "kubeClient",
      flaggerClient      |-> "flaggerClient",
      logger             |-> "logger",
      configTracker      |-> "configTracker",
      labels             |-> lbls,
      includeLabelPrefix |-> includeLabelPrefix,
      kruiseClient       |-> "kruiseClient" ]
Factories == { NewFactory(l, p) : l \in FactoryLabels, p \in IncludeLabelPrefixes }
\* the factory of the controller modelled above
DefaultFactory == NewFactory(labels, <<>>)

\* a nil Controller
NoController == [variant |-> ""]

\* faulty variant: an unknown kind gets no controller
FactoryControllerStrict(f, kind) ==
    IF kind \in {"DaemonSet", "Deployment", "Service", "CloneSet"}
    THEN [variant |-> kind \o "Controller", logger |-> f.logger,
          kubeClient |-> f.kubeClient, flaggerClient |-> f.flaggerClient,
          labels |-> f.labels]
    ELSE NoController

FactoryController(f, kind) ==
    LET deploymentCtrl ==
            [ variant            |-> "DeploymentController",
              logger             |-> f.logger,
              kubeClient         |-> f.kubeClient,
              flaggerClient      |-> f.flaggerClient,
              labels             |-> f.labels,
              configTracker      |-> f.configTracker,
              includeLabelPrefix |-> f.includeLabelPrefix ]
        daemonSetCtrl ==
            [ variant       |-> "DaemonSetController",
              logger        |-> f.logger,
              kubeClient    |-> f.kubeClient,
              flaggerClient |-> f.flaggerClient,
              labels        |-> f.labels,
              configTracker |-> f.configTracker ]
        serviceCtrl ==
            [ variant       |-> "ServiceController",
              logger        |-> f.logger,
              kubeClient    |-> f.kubeClient,
              flaggerClient |-> f.flaggerClient ]
        cloneSetCtrl ==
            [ variant            |-> "CloneSetController",
              logger             |-> f.logger,
              kubeClient         |-> f.kubeClient,
              flaggerClient      |-> f.flaggerClient,
              labels             |-> f.labels,
              configTracker      |-> f.configTracker,
              includeLabelPrefix |-> f.includeLabelPrefix,
              kruiseClient       |-> f.kruiseClient ]
    IN CASE kind = "DaemonSet"  -> daemonSetCtrl
         [] kind = "Deployment" -> deploymentCtrl
         [] kind = "Service"    -> serviceCtrl
         [] kind = "CloneSet"   -> cloneSetCtrl
         [] OTHER               -> deploymentCtrl

\* no operation has read without writing
NoOperation == [op |-> ""]

(***************************************************************************)
(* Actions: one per operation of the controller.                           *)
(***************************************************************************)
Outcome(op, r, in) ==
    [op |-> op, err |-> r.err, phase |-> in.phase, skip |-> in.skip,
     flag |-> FALSE, applied |-> <<>>, label |-> "", value |-> "",
     st |-> NoStatus, now |-> 0, ctrl |-> NoController, fetched |-> NoObject]

\* an operation ran, left context r and returned out
Ran(r, out) ==
    /\ store' = r.store
    /\ primaryConfigs' = r.configs
    /\ calls' = r.calls
    /\ last' = out
    /\ pre' = store
    /\ UNCHANGED <<factory, inflight>>

ScaleToZero ==
    \E fail \in {"", "ScaleToZero.Get", "ScaleToZero.Update"} :
        LET r == ScaleToZeroCall(NewCtx, fail)
        IN Ran(r, Outcome("ScaleToZero", r, NoInput))

ScaleFromZero ==
    \E fail \in {"", "ScaleFromZero.Get", "ScaleFromZero.Update"} :
        LET r == ScaleFromZeroCall(NewCtx, fail)
        IN Ran(r, Outcome("ScaleFromZero", r, NoInput))

Finalize ==
    \E fail \in {"", "ScaleFromZero.Get", "ScaleFromZero.Update"} :
        LET r == FinalizeCall(NewCtx, fail)
        IN Ran(r, Outcome("Finalize", r, NoInput))

InitializeFaults ==
    {"", "createPrimary.GetTarget", "createPrimary.GetPrimary", "GetTargetConfigs",
     "CreatePrimaryConfigs", "makeAnnotations", "createPrimary.Create",
     "IsPrimaryReady.Get", "ScaleToZero.Get", "ScaleToZero.Update"}

\* the calls Initialize can reach for a descriptor, hence the ones that can fail
InitializeFaultsOf(cd) ==
    InitializeFaults \
        (IF ~InitialPhase(cd) THEN {"IsPrimaryReady.Get", "ScaleToZero.Get", "ScaleToZero.Update"}
         ELSE IF cd.skip THEN {"IsPrimaryReady.Get"}
         ELSE {})

\* the status is read by the readiness check only, which is reached when
\* the primary's creation step did not fail
Initialize ==
    \E cd \in Canaries, fail \in InitializeFaults :
      fail \in InitializeFaultsOf(cd) /\
        \E in \in (IF /\ InitialPhase(cd) /\ ~cd.skip
                      /\ fail \in {"", "ScaleToZero.Get", "ScaleToZero.Update"}
                   THEN ReadinessInputsOf(primaryNameOf(TargetName))
                   ELSE {AnyReadinessInput}) :
            LET r == InitializeCall(NewCtx, cd, fail, NewId, in.st, in.now)
            IN Ran(r, [Outcome("Initialize", r, cd) EXCEPT !.st = in.st, !.now = in.now])

PromoteFaults ==
    {"", "Promote.GetTarget", "Promote.GetPrimary", "GetTargetConfigs",
     "CreatePrimaryConfigs", "makeAnnotations", "Promote.Update"}

Promote ==
    \E fail \in PromoteFaults :
        LET r == PromoteCall(NewCtx, fail, NewId)
        IN Ran(r, Outcome("Promote", r, NoInput))

IsPrimaryReadyOn(inputs) ==
    \E fail \in {"", "IsPrimaryReady.Get"}, in \in inputs :
        LET r == IsPrimaryReadyCall(NewCtx, fail, in.st, in.now)
        IN Ran(r, [Outcome("IsPrimaryReady", r, NoInput) EXCEPT !.st = in.st, !.now = in.now])

IsPrimaryReady == IsPrimaryReadyOn(ReadinessInputsOf(primaryNameOf(TargetName)))

IsCanaryReadyOn(inputs) ==
    \E fail \in {"", "IsCanaryReady.Get"}, in \in inputs :
        LET r == IsCanaryReadyCall(NewCtx, fail, in.st, in.now)
        IN Ran(r.ctx, [Outcome("IsCanaryReady", r.ctx, NoInput)
                          EXCEPT !.flag = r.retryable, !.st = in.st, !.now = in.now])

IsCanaryReady == IsCanaryReadyOn(ReadinessInputsOf(TargetName))

HasTargetChanged ==
    \E fail \in {"", "HasTargetChanged.Get"}, applied \in AppliedSpecs :
        LET r == HasTargetChangedCall(NewCtx, fail, applied)
        IN Ran(r.ctx, [Outcome("HasTargetChanged", r.ctx, NoInput)
                          EXCEPT !.flag = r.changed, !.applied = applied])

GetMetadata ==
    \E fail \in {"", "GetMetadata.Get"} :
        LET r == GetMetadataCall(NewCtx, fail)
        IN Ran(r.ctx, [Outcome("GetMetadata", r.ctx, NoInput)
                          EXCEPT !.label = r.label, !.value = r.value])

HaveDependenciesChanged ==
    \E fail \in {"", "HasConfigChanged"}, changed \in BOOLEAN :
        LET r == HaveDependenciesChangedCall(NewCtx, fail, changed)
        IN Ran(r.ctx, [Outcome("HaveDependenciesChanged", r.ctx, NoInput) EXCEPT !.flag = r.changed])

Controller ==
    \E kind \in Kinds :
        /\ last' = [Outcome("Controller", [err |-> ""], NoInput)
                       EXCEPT !.label = kind, !.ctrl = FactoryController(factory, kind)]
        /\ calls' = <<>>
        /\ pre' = store
        /\ UNCHANGED <<store, primaryConfigs, factory, inflight>>

\* ScaleToZero or ScaleFromZero has read the target
ReadTarget ==
    /\ inflight = NoOperation
    /\ \E op \in {"ScaleToZero", "ScaleFromZero"} :
          LET g == apiGet(NewCtx, TargetName, FALSE)
          IN inflight' = [op |-> op, calls |-> g.ctx.calls, canary |-> g.obj, primary |-> NoObject]
    /\ UNCHANGED <<store, primaryConfigs, last, calls, pre, factory>>

\* Promote has read the target, resolved its label and read the primary
ReadPrimary ==
    /\ inflight = NoOperation
    /\ LET g == apiGet(NewCtx, TargetName, FALSE)
           p == apiGet(g.ctx, primaryNameOf(TargetName), FALSE)
       IN /\ getSelectorLabel(g.obj).err = ""
          /\ p.err = ""
          /\ inflight' = [op |-> "Promote", calls |-> p.ctx.calls, canary |-> g.obj, primary |-> p.obj]
    /\ UNCHANGED <<store, primaryConfigs, last, calls, pre, factory>>

\* the operation that has read goes on to its write and returns
WriteBack ==
    /\ inflight # NoOperation
    /\ \E fail \in {"", "ScaleToZero.Update", "ScaleFromZero.Update",
                     "CreatePrimaryConfigs", "Promote.Update"} :
          LET ctx == [NewCtx EXCEPT !.calls = inflight.calls]
              r == CASE inflight.op = "ScaleToZero"   -> ScaleToZeroWrite(ctx, inflight.canary, fail)
                     [] inflight.op = "ScaleFromZero" -> ScaleFromZeroWrite(ctx, inflight.canary, fail)
                     [] inflight.op = "Promote"       ->
                            PromoteWrite(ctx, inflight.canary, inflight.primary, fail, NewId)
          IN /\ store' = r.store
             /\ primaryConfigs' = r.configs
             /\ calls' = r.calls
             /\ last' = [Outcome(inflight.op, r, NoInput)
                            EXCEPT !.fetched = IF inflight.op = "Promote"
                                               THEN inflight.primary ELSE inflight.canary]
             /\ pre' = store
    /\ inflight' = NoOperation
    /\ UNCHANGED factory

\* outside the controller: another client of the API changes the target
\* (its owner rolls out the next image) or the primary (it is scaled down)
OtherWriter ==
    /\ \/ /\ store[TargetName].podSpec.image = "v1"
          /\ store' = [store EXCEPT ![TargetName].podSpec.image = "v2"]
       \/ /\ primaryNameOf(TargetName) \in DOMAIN store
          /\ store[primaryNameOf(TargetName)].replicas # <<0>>
          /\ store' = [store EXCEPT ![primaryNameOf(TargetName)].replicas = <<0>>]
    /\ last' = Outcome("OtherWriter", [err |-> ""], NoInput)
    /\ calls' = <<>>
    /\ pre' = store
    /\ UNCHANGED <<primaryConfigs, factory, inflight>>

\* outside the controller: the target's owner rolls out the next image
EditTarget ==
    /\ store[TargetName].podSpec.image = "v1"
    /\ store' = [store EXCEPT ![TargetName].podSpec.image = "v2"]
    /\ last' = Outcome("EditTarget", [err |-> ""], NoInput)
    /\ calls' = <<>>
    /\ pre' = store
    /\ UNCHANGED <<primaryConfigs, factory, inflight>>

(***************************************************************************)
(* Spec: the whole controller on a target paired by the label "app", with  *)
(* the primary absent or left by an earlier rollout, and the target's      *)
(* owner rolling out a new image at any time.                              *)
(***************************************************************************)
InitWith(targets, primaries) ==
    /\ \E t \in targets :
          \/ store = (TargetName :> t)
          \/ \E p \in primaries :
                store = (TargetName :> t) @@ (primaryNameOf(TargetName) :> p)
    /\ primaryConfigs = {}
    /\ last = Outcome("", [err |-> ""], NoInput)
    /\ calls = <<>>
    /\ pre = store
    /\ factory = DefaultFactory
    /\ inflight = NoOperation

Init ==
    InitWith({ Target(ns, "", ("app" :> "demo")) : ns \in {NilMap, MapOf("disk" :> "ssd")} },
             InitialPrimaries)

Next ==
    \/ ScaleToZero
    \/ ScaleFromZero
    \/ Finalize
    \/ Initialize
    \/ Promote
    \/ IsPrimaryReady
    \/ IsCanaryReady
    \/ HasTargetChanged
    \/ GetMetadata
    \/ HaveDependenciesChanged
    \/ EditTarget

Spec == Init /\ [][Next]_vars

(***************************************************************************)
(* SpecScale: the marker operations and the drift check on every initial   *)
(* node selector, with the target's owner rolling out a new image.         *)
(***************************************************************************)
InitScale ==
    InitWith({ Target(ns, "", ("app" :> "demo")) : ns \in InitialNodeSelectors }, {})

NextScale ==
    \/ ScaleToZero
    \/ ScaleFromZero
    \/ Finalize
    \/ HasTargetChanged
    \/ EditTarget

SpecScale == InitScale /\ [][NextScale]_vars

(***************************************************************************)
(* SpecSelector: the operations that resolve the selector label, on        *)
(* targets declaring none, one or both of the candidate keys, with the     *)
(* primary absent or present.                                              *)
(***************************************************************************)
InitSelector ==
    InitWith({ Target(NilMap, "", ml) : ml \in InitialMatchLabels },
             { p \in InitialPrimaries : p.replicas = <<1>> })

NextSelector ==
    \/ GetMetadata
    \/ Promote
    \/ Initialize

SpecSelector == InitSelector /\ [][NextSelector]_vars

(***************************************************************************)
(* SpecReady: the readiness checks on every status.  The target and the    *)
(* primary declare any replica count; the status the cluster reports and   *)
(* the time of the checks are drawn at the start and kept in `last`.       *)
(***************************************************************************)
InitReady ==
    \E r \in ReplicasFields, p \in InitialPrimaries, in \in AllReadinessInputs :
        /\ store = (TargetName :> [Target(NilMap, "", ("app" :> "demo")) EXCEPT !.replicas = r])
                      @@ (primaryNameOf(TargetName) :> p)
        /\ primaryConfigs = {}
        /\ last = [Outcome("", [err |-> ""], NoInput) EXCEPT !.st = in.st, !.now = in.now]
        /\ calls = <<>>
        /\ pre = store
        /\ factory = DefaultFactory
        /\ inflight = NoOperation

\* the status and the time the checks read
reported == {[st |-> last.st, now |-> last.now]}

NextReady ==
    \/ IsCanaryReadyOn(reported)
    \/ IsPrimaryReadyOn(reported)

SpecReady == InitReady /\ [][NextReady]_vars

(***************************************************************************)
(* SpecFactory: Controller asked for every kind, on every factory.         *)
(***************************************************************************)
InitFactory ==
    /\ store = (TargetName :> Target(NilMap, "", ("app" :> "demo")))
    /\ primaryConfigs = {}
    /\ last = Outcome("", [err |-> ""], NoInput)
    /\ calls = <<>>
    /\ pre = store
    /\ factory \in Factories
    /\ inflight = NoOperation

NextFactory == Controller

SpecFactory == InitFactory /\ [][NextFactory]_vars

(***************************************************************************)
(* SpecConflict: ScaleToZero, ScaleFromZero and Promote taken in two       *)
(* steps, the read and the write, with another writer in between.          *)
(***************************************************************************)
InitConflict ==
    InitWith({ Target(ns, "", ("app" :> "demo")) : ns \in {NilMap, MapOf("disk" :> "ssd")} },
             { p \in InitialPrimaries : p.replicas = <<1>> })

NextConflict ==
    \/ ReadTarget
    \/ ReadPrimary
    \/ WriteBack
    \/ OtherWriter

SpecConflict == InitConflict /\ [][NextConflict]_vars

(***************************************************************************)
(* SpecStrategy: Initialize on targets declaring each update strategy,     *)
(* with the primary absent or present.                                     *)
(***************************************************************************)
InitStrategy ==
    InitWith({ Target(NilMap, us, ("app" :> "demo")) : us \in StrategyTypes },
             { p \in InitialPrimaries : p.replicas = <<1>> })

NextStrategy == Initialize

SpecStrategy == InitStrategy /\ [][NextStrategy]_vars

(***************************************************************************)
(* Vocabulary of the properties                                            *)
(***************************************************************************)
PrimaryName == primaryNameOf(TargetName)
PrimaryExists(s) == PrimaryName \in DOMAIN s
HasMarker(obj) == HasKey(obj.podSpec.nodeSelector, Marker)

\* the positions of the last operation's calls of this kind on this object
CallsOf(call, name) == { i \in 1..Len(calls) : calls[i].call = call /\ calls[i].name = name }
Issued(call, name) == CallsOf(call, name) # {}
Succeeded(call, name) == \E i \in CallsOf(call, name) : calls[i].err = ""
Failed(call, name) == \E i \in CallsOf(call, name) : calls[i].err # ""

(***************************************************************************)
(* C1: Initialize in phase "" or Initializing with analysis not skipped:   *)
(* when its primary readiness check returns an error, Initialize returns   *)
(* an error and issues no write to the target; a target written by such a  *)
(* call was written after the readiness check succeeded.                   *)
(***************************************************************************)
C1_InitializeGatedOnPrimaryReady ==
    (last.op = "Initialize" /\ InitialPhase(last) /\ ~last.skip) =>
        /\ Failed("IsPrimaryReady", PrimaryName) =>
              /\ last.err # ""
              /\ ~Issued("Update", TargetName)
              /\ store[TargetName] = pre[TargetName]
        /\ \A u \in CallsOf("Update", TargetName) :
              \E i \in CallsOf("IsPrimaryReady", PrimaryName) : i < u /\ calls[i].err = ""

\* an Initialize whose readiness check found an existing primary not ready
C1_Witness ==
    /\ last.op = "Initialize" /\ InitialPhase(last) /\ ~last.skip
    /\ PrimaryExists(store)
    /\ Succeeded("Get", PrimaryName)
    /\ Failed("IsPrimaryReady", PrimaryName)
    /\ ~HasMarker(store[TargetName])

(***************************************************************************)
(* C2: IsPrimaryReady returns an error whenever the primary declares       *)
(* exactly zero replicas, also when the classifier finds it ready; so an   *)
(* Initialize that checks readiness never scales the target to zero while  *)
(* the primary declares zero replicas.                                     *)
(***************************************************************************)
C2_ZeroReplicaPrimaryHalts ==
    (/\ last.op = "IsPrimaryReady" \/ (last.op = "Initialize" /\ Issued("IsPrimaryReady", PrimaryName))
     /\ PrimaryExists(store)
     /\ store[PrimaryName].replicas = <<0>>)
    => /\ last.err # ""
       /\ ~Issued("Update", TargetName)

(***************************************************************************)
(* C3: after a successful Promote the written primary has the target's     *)
(* min-ready-seconds, revision-history-limit and update strategy, the      *)
(* config overlay of the target's pod spec with the marker removed from    *)
(* its node selector, and the resolved selector key labelled               *)
(* "<value>-primary" on its pod template, whether or not the target        *)
(* carries the marker; its replica count and selector are as before.       *)
(***************************************************************************)
C3_PromoteWritesPrimary ==
    (last.op = "Promote" /\ last.err = "") =>
        LET canary  == pre[TargetName]
            primary == store[PrimaryName]
            sel     == getSelectorLabel(canary)
            overlay == ApplyPrimaryConfigs(canary.podSpec, GetTargetConfigs([store |-> pre]))
        IN /\ Succeeded("Update", PrimaryName)
           /\ primary.minReadySeconds = canary.minReadySeconds
           /\ primary.revisionHistoryLimit = canary.revisionHistoryLimit
           /\ primary.updateStrategy = canary.updateStrategy
           /\ primary.podSpec.image = overlay.image
           /\ primary.podSpec.configRef = overlay.configRef
           /\ ~HasKey(primary.podSpec.nodeSelector, Marker)
           /\ primary.podSpec.nodeSelector.kv =
                 [k \in DOMAIN overlay.nodeSelector.kv \ {Marker} |-> overlay.nodeSelector.kv[k]]
           /\ sel.label \in DOMAIN primary.tplLabels
           /\ primary.tplLabels[sel.label] = sel.value \o "-primary"
           /\ primary.replicas = pre[PrimaryName].replicas
           /\ primary.matchLabels = pre[PrimaryName].matchLabels

\* a Promote that took min-ready-seconds from 0 to 5 from a marked target
C3_Witness ==
    /\ last.op = "Promote" /\ last.err = ""
    /\ HasMarker(pre[TargetName])
    /\ HasKey(pre[TargetName].podSpec.nodeSelector, "disk")
    /\ pre[PrimaryName].minReadySeconds = 0
    /\ store[PrimaryName].minReadySeconds = 5
    /\ store[PrimaryName].tplLabels["app"] = "demo-primary"
    /\ HasKey(store[PrimaryName].podSpec.nodeSelector, "disk")

(***************************************************************************)
(* C4: in every Promote, the update of the primary is issued only after    *)
(* CreatePrimaryConfigs has returned successfully; when GetTargetConfigs   *)
(* or CreatePrimaryConfigs fails, Promote returns an error and issues no   *)
(* update of the primary.                                                  *)
(***************************************************************************)
C4_ConfigsBeforePrimaryUpdate ==
    last.op = "Promote" =>
        /\ \A u \in CallsOf("Update", PrimaryName) :
              \E i \in CallsOf("CreatePrimaryConfigs", "") : i < u /\ calls[i].err = ""
        /\ (Failed("GetTargetConfigs", "") \/ Failed("CreatePrimaryConfigs", "")) =>
              /\ last.err # ""
              /\ ~Issued("Update", PrimaryName)
              /\ store = pre

\* a Promote whose update refers to the config copy made before it
C4_Witness ==
    /\ last.op = "Promote" /\ last.err = ""
    /\ Succeeded("CreatePrimaryConfigs", "")
    /\ Succeeded("Update", PrimaryName)
    /\ store[PrimaryName].podSpec.configRef = "app-config-primary"
    /\ pre[PrimaryName].podSpec.configRef = ""
    /\ "app-config-primary" \in primaryConfigs

(***************************************************************************)
(* C5: primary creation is create-if-absent.  An Initialize whose lookup   *)
(* of the primary returns not-found and whose creation step returns no     *)
(* error issued exactly one create, of a primary built from the target's   *)
(* template at that time; an Initialize that finds the primary present     *)
(* issues no create and no update of it and leaves it unchanged, whatever  *)
(* the target's template has become.  No Initialize creates twice or       *)
(* updates the primary.                                                    *)
(***************************************************************************)
C5_CreateIfAbsent ==
    last.op = "Initialize" =>
        /\ Cardinality(CallsOf("Create", PrimaryName)) <= 1
        /\ ~Issued("Update", PrimaryName)
        /\ PrimaryExists(pre) =>
              /\ ~Issued("Create", PrimaryName)
              /\ store[PrimaryName] = pre[PrimaryName]
        /\ (/\ \E i \in CallsOf("Get", PrimaryName) :
                  /\ calls[i].err = "NotFound"
                  /\ \A j \in CallsOf("Get", PrimaryName) : i <= j
            /\ Succeeded("createPrimaryCloneSet", PrimaryName)) =>
              /\ Cardinality(CallsOf("Create", PrimaryName)) = 1
              /\ Succeeded("Create", PrimaryName)
              /\ PrimaryExists(store)
              /\ store[PrimaryName].podSpec =
                    ApplyPrimaryConfigs(pre[TargetName].podSpec, GetTargetConfigs([store |-> pre]))
              /\ store[PrimaryName].minReadySeconds = pre[TargetName].minReadySeconds

\* a second Initialize, on a primary the first one created from image v1,
\* after the target moved to image v2
C5_Witness ==
    /\ last.op = "Initialize" /\ last.err = ""
    /\ PrimaryExists(pre)
    /\ pre[PrimaryName].tplAnnotations["flagger-id"] = NewId
    /\ pre[PrimaryName].podSpec.image = "v1"
    /\ pre[TargetName].podSpec.image = "v2"
    /\ Succeeded("Get", PrimaryName)
    /\ store[PrimaryName] = pre[PrimaryName]

(***************************************************************************)
(* C6: no operation deletes the primary, and once it exists only Promote   *)
(* writes it: every other operation leaves the stored primary as it was.   *)
(***************************************************************************)
C6_OnlyPromoteWritesPrimary ==
    PrimaryExists(pre) =>
        /\ PrimaryExists(store)
        /\ store[PrimaryName] # pre[PrimaryName] => last.op = "Promote"
        /\ last.op # "Promote" => ~Issued("Update", PrimaryName)

\* an Initialize that scaled the target down next to an existing primary
C6_Witness ==
    /\ last.op = "Initialize" /\ last.err = ""
    /\ PrimaryExists(pre)
    /\ Succeeded("Update", TargetName)
    /\ store[TargetName] # pre[TargetName]
    /\ store[PrimaryName] = pre[PrimaryName]

(***************************************************************************)
(* C7: when the stored target carries the marker before an operation and   *)
(* lacks it afterwards, the operation was ScaleFromZero or Finalize.       *)
(* Promote and HasTargetChanged, which strip the marker from the copy they *)
(* fetched, leave the stored target as it was; Initialize and ScaleToZero  *)
(* never write an unmarked target over a marked one.                       *)
(***************************************************************************)
C7_OnlyScaleUpRemovesMarker ==
    /\ (HasMarker(pre[TargetName]) /\ ~HasMarker(store[TargetName])) =>
          last.op \in {"ScaleFromZero", "Finalize"}
    /\ last.op \in {"Promote", "HasTargetChanged"} =>
          /\ store[TargetName] = pre[TargetName]
          /\ ~Issued("Update", TargetName)

\* a Promote that stripped the marker from its copy of a marked target
C7_Witness ==
    /\ last.op = "Promote" /\ last.err = ""
    /\ HasMarker(pre[TargetName])
    /\ HasMarker(store[TargetName])
    /\ Succeeded("Update", PrimaryName)
    /\ ~HasMarker(store[PrimaryName])

(***************************************************************************)
(* C8: ScaleToZero is idempotent and additive.  On every initial node      *)
(* selector (nil, empty, with other entries, with or without the marker) a *)
(* successful ScaleToZero leaves the selector it found plus the marker     *)
(* entry, every other entry kept, and the declared replica count as it     *)
(* was; a second successful ScaleToZero right after it changes nothing.    *)
(***************************************************************************)
C8_ScaleToZeroIdempotentAdditive ==
    [][ (last'.op = "ScaleToZero" /\ last'.err = "") =>
            LET old == store[TargetName].podSpec.nodeSelector
                new == store'[TargetName].podSpec.nodeSelector
            IN /\ ~new.isNil
               /\ DOMAIN new.kv = DOMAIN old.kv \cup {Marker}
               /\ new.kv[Marker] = "true"
               /\ \A k \in DOMAIN old.kv \ {Marker} : new.kv[k] = old.kv[k]
               /\ store'[TargetName].replicas = store[TargetName].replicas
               /\ store' = [store EXCEPT ![TargetName].podSpec.nodeSelector = new]
               /\ (last.op = "ScaleToZero" /\ last.err = "") => store' = store
      ]_vars

\* a successful ScaleToZero that found the marker next to another entry
\* and left the target as it was
C8_Witness ==
    /\ last.op = "ScaleToZero" /\ last.err = ""
    /\ Succeeded("Update", TargetName)
    /\ HasMarker(pre[TargetName])
    /\ store[TargetName] = pre[TargetName]
    /\ store[TargetName].podSpec.nodeSelector.kv = ("disk" :> "ssd") @@ (Marker :> "true")
    /\ store[TargetName].replicas = <<1>>

(***************************************************************************)
(* C9: round trip.  On a target that did not carry the marker, a           *)
(* successful ScaleToZero followed by a successful ScaleFromZero or        *)
(* Finalize leaves the node selector with the entries it had before (a nil *)
(* map and an empty map being equal) and everything else as it was.        *)
(* ScaleFromZero on a target without the marker, a nil selector included,  *)
(* leaves the target unchanged and returns an error only when an API call  *)
(* failed.                                                                 *)
(***************************************************************************)
C9_ScaleRoundTrip ==
    [][ /\ (/\ last.op = "ScaleToZero" /\ last.err = ""
            /\ ~HasMarker(pre[TargetName])
            /\ last'.op \in {"ScaleFromZero", "Finalize"} /\ last'.err = "") =>
              /\ SameEntries(store'[TargetName].podSpec.nodeSelector,
                             pre[TargetName].podSpec.nodeSelector)
              /\ [store'[TargetName] EXCEPT !.podSpec.nodeSelector = NilMap]
                    = [pre[TargetName] EXCEPT !.podSpec.nodeSelector = NilMap]
        /\ (last'.op = "ScaleFromZero" /\ ~HasMarker(store[TargetName])) =>
              /\ store' = store
              /\ last'.err # "" => \E i \in 1..Len(calls') : calls'[i].err # ""
      ]_vars

\* a ScaleFromZero that took the marker off a target whose selector was nil
\* before it was scaled down
C9_Witness ==
    /\ last.op = "ScaleFromZero" /\ last.err = ""
    /\ HasMarker(pre[TargetName])
    /\ pre[TargetName].podSpec.nodeSelector.kv = (Marker :> "true")
    /\ store[TargetName].podSpec.nodeSelector = makeMap

(***************************************************************************)
(* C10: drift detection is insensitive to the marker and to nil-vs-empty   *)
(* node selectors.  The template HasTargetChanged hashes is the same       *)
(* before and after every ScaleToZero, ScaleFromZero and Finalize, and     *)
(* a successful HasTargetChanged answers false exactly when the recorded   *)
(* hash is that of the target's template without the marker, a nil         *)
(* selector read as empty: so its answer is the same at all three points.  *)
(***************************************************************************)
C10_DriftIgnoresMarker ==
    /\ last.op \in {"ScaleToZero", "ScaleFromZero", "Finalize"} =>
          hashedTemplate(store[TargetName]) = hashedTemplate(pre[TargetName])
    /\ (last.op = "HasTargetChanged" /\ last.err = "") =>
          /\ store = pre
          /\ ~last.flag <=> last.applied = <<recordedHash(store[TargetName])>>

\* HasTargetChanged answered false on a target that carries the marker
C10_Witness ==
    /\ last.op = "HasTargetChanged" /\ last.err = ""
    /\ HasMarker(store[TargetName])
    /\ store[TargetName].podSpec.nodeSelector.kv = (Marker :> "true")
    /\ last.applied # <<>>
    /\ ~last.flag

(***************************************************************************)
(* C11: selector resolution scans the candidate keys in list order and     *)
(* returns the first one present in the target's match-labels with its     *)
(* value.  With no candidate present it returns an error: GetMetadata      *)
(* returns no label, Promote writes no primary, primary creation creates   *)
(* nothing.  The primary written or created carries the first key.         *)
(***************************************************************************)
Candidates(cloneSet) == { i \in 1..Len(labels) : labels[i] \in DOMAIN cloneSet.matchLabels }
FirstCandidate(cloneSet) ==
    labels[CHOOSE i \in Candidates(cloneSet) : \A j \in Candidates(cloneSet) : i <= j]

C11_SelectorResolution ==
    LET canary == pre[TargetName]
        none   == Candidates(canary) = {}
        first  == FirstCandidate(canary)
    IN /\ (last.op = "GetMetadata" /\ Succeeded("Get", TargetName)) =>
             IF none
             THEN last.err # "" /\ last.label = "" /\ last.value = ""
             ELSE last.err = "" /\ last.label = first /\ last.value = canary.matchLabels[first]
       /\ (last.op \in {"Promote", "Initialize"} /\ none) =>
             /\ last.err # ""
             /\ ~Issued("Update", PrimaryName)
             /\ ~Issued("Create", PrimaryName)
             /\ store = pre
       /\ (last.op = "Promote" /\ last.err = "") =>
             store[PrimaryName].tplLabels[first] = canary.matchLabels[first] \o "-primary"
       /\ (last.op = "Initialize" /\ Succeeded("Create", PrimaryName)) =>
             store[PrimaryName].matchLabels = (first :> (canary.matchLabels[first] \o "-primary"))

\* GetMetadata on a target declaring both candidate keys returned the first
C11_Witness ==
    /\ last.op = "GetMetadata" /\ last.err = ""
    /\ DOMAIN store[TargetName].matchLabels = {"app", "name"}
    /\ last.label = "app" /\ last.value = "demo"

(***************************************************************************)
(* C12: selector resolution fails with a configuration error when more     *)
(* than one candidate key is present in the target's match-labels.         *)
(***************************************************************************)
C12_SeveralCandidatesRejected ==
    (/\ last.op \in {"GetMetadata", "Promote", "Initialize"}
     /\ Succeeded("Get", TargetName)
     /\ Cardinality(Candidates(pre[TargetName])) > 1)
    => last.err # ""

(***************************************************************************)
(* C13: with no adverse status condition, isCloneSetReady is the ordered   *)
(* rule evaluation, for every generation, observed generation, declared,   *)
(* updated, total and available count: not ready and retryable when the    *)
(* observed generation is behind; otherwise when updated < declared, else  *)
(* when total > updated, else when available < updated, the first match    *)
(* giving the reason; otherwise ready.  IsCanaryReady returns this verdict *)
(* for the target.  A target declaring no count skips the declared rule.   *)
(***************************************************************************)
OrderedRules(declared, st) ==
    IF st.observedGeneration < st.generation
    THEN "observed generation less then desired generation"
    ELSE IF declared # <<>> /\ st.updatedReplicas < declared[1]
    THEN "new replicas have been updated"
    ELSE IF st.replicas > st.updatedReplicas
    THEN "old replicas are pending termination"
    ELSE IF st.availableReplicas < st.updatedReplicas
    THEN "updated replicas are available"
    ELSE ""

C13_ReadinessOrderedRules ==
    (/\ last.op = "IsCanaryReady"
     /\ Succeeded("Get", TargetName)
     /\ last.st.conditions = <<>>) =>
        LET reason == OrderedRules(store[TargetName].replicas, last.st)
        IN /\ last.flag
           /\ last.err = IF reason = "" THEN "" ELSE "canary cloneset not ready: " \o reason

\* IsCanaryReady on a status matching the updated rule and the old-replicas
\* rule reported the updated rule
C13_Witness ==
    /\ last.op = "IsCanaryReady"
    /\ store[TargetName].replicas = <<1>>
    /\ last.st.generation = last.st.observedGeneration
    /\ last.st.updatedReplicas = 0 /\ last.st.replicas = 1
    /\ last.st.conditions = <<>>
    /\ last.flag
    /\ last.err = "canary cloneset not ready: new replicas have been updated"

(***************************************************************************)
(* C14: deadline grace period.  For a workload stuck in a not-finished     *)
(* state whose availability condition reports MinimumReplicasUnavailable   *)
(* since time T, with progress deadline D, a readiness check after T+D     *)
(* returns a non-retryable verdict and one before T+D a retryable one.     *)
(***************************************************************************)
C14_DeadlineGracePeriod ==
    (/\ last.op = "IsCanaryReady"
     /\ Succeeded("Get", TargetName)
     /\ last.st.generation <= last.st.observedGeneration
     /\ last.err # ""
     /\ last.st.conditions = <<MinimumReplicasUnavailable>>) =>
        (last.flag <=>
            ~(MinimumReplicasUnavailable.lastTransitionTime + ProgressDeadlineSeconds < last.now))

(***************************************************************************)
(* C15: Initialize in a phase other than "" and Initializing performs no   *)
(* primary readiness check and issues no write to the target, whose node   *)
(* selector stays as it was; the only workload write it can issue is the   *)
(* creation of a primary that was absent.                                  *)
(***************************************************************************)
C15_LaterPhasesOnlyCreate ==
    (last.op = "Initialize" /\ last.phase \notin {"", "Initializing"}) =>
        /\ ~Issued("IsPrimaryReady", PrimaryName)
        /\ ~Issued("Update", TargetName)
        /\ store[TargetName] = pre[TargetName]
        /\ \A i \in 1..Len(calls) :
              calls[i].call \in {"Update", "Create"} =>
                  /\ calls[i].call = "Create"
                  /\ calls[i].name = PrimaryName
                  /\ ~PrimaryExists(pre)

\* an Initialize in phase Promoting that created the primary and left the
\* target without the marker
C15_Witness ==
    /\ last.op = "Initialize" /\ last.phase = "Promoting" /\ ~last.skip
    /\ last.err = ""
    /\ ~PrimaryExists(pre)
    /\ Succeeded("Create", PrimaryName)
    /\ ~HasMarker(store[TargetName])

(***************************************************************************)
(* C16: when analysis is skipped, Initialize neither checks the primary's  *)
(* readiness nor adds the scale-to-zero marker to the target.              *)
(***************************************************************************)
C16_SkippedAnalysisLeavesTarget ==
    (last.op = "Initialize" /\ last.skip) =>
        /\ ~Issued("IsPrimaryReady", PrimaryName)
        /\ ~Issued("Update", TargetName)
        /\ HasMarker(store[TargetName]) => HasMarker(pre[TargetName])

(***************************************************************************)
(* C18: in every reachable state, the primary being initially absent or    *)
(* present without the marker, the stored primary's node selector does not *)
(* hold the scale-to-zero marker; in particular a primary that Initialize  *)
(* created from a target carrying the marker does not carry it.            *)
(***************************************************************************)
C18_PrimaryNeverMarked ==
    PrimaryExists(store) => ~HasMarker(store[PrimaryName])

(***************************************************************************)
(* C20: every API failure is propagated.  An operation one of whose gets,  *)
(* creates or updates failed returns an error; the one failure that is not *)
(* an error is the not-found answer to the lookup of the primary inside    *)
(* primary creation.                                                       *)
(***************************************************************************)
C20_ApiFailuresPropagated ==
    (/\ last.op \in {"Initialize", "ScaleToZero", "ScaleFromZero", "Promote",
                     "Finalize", "IsPrimaryReady", "IsCanaryReady"}
     /\ \E i \in 1..Len(calls) :
           /\ calls[i].call \in {"Get", "Create", "Update"}
           /\ calls[i].err # ""
           /\ ~(last.op = "Initialize" /\ calls[i].call = "Get"
                /\ calls[i].name = PrimaryName /\ calls[i].err = "NotFound"
                /\ \A j \in CallsOf("Get", PrimaryName) : i <= j))
    => last.err # ""

(***************************************************************************)
(* C17: Factory.Controller is total on kind strings.  DaemonSet,           *)
(* Deployment, Service and CloneSet each get their own variant; every      *)
(* other string, the empty one and UnknownKind included, gets what         *)
(* Deployment gets, never a nil controller.                                *)
(***************************************************************************)
C17_FactoryTotal ==
    last.op = "Controller" =>
        /\ last.ctrl # NoController
        /\ last.ctrl.variant =
              CASE last.label = "DaemonSet" -> "DaemonSetController"
                [] last.label = "Service"   -> "ServiceController"
                [] last.label = "CloneSet"  -> "CloneSetController"
                [] OTHER                    -> "DeploymentController"
        /\ last.label \notin {"DaemonSet", "Service", "CloneSet"} =>
              last.ctrl = FactoryController(factory, "Deployment")
        /\ last.label = "Service" \/ last.ctrl.labels = factory.labels

\* Controller("UnknownKind") returned the Deployment controller of a factory
\* with two candidate labels
C17_Witness ==
    /\ last.op = "Controller" /\ last.label = "UnknownKind"
    /\ last.ctrl.variant = "DeploymentController"
    /\ last.ctrl.labels = <<"name", "app">>
    /\ last.ctrl.includeLabelPrefix = <<"*">>

(***************************************************************************)
(* C19: read-modify-write under interleaving.  When another writer has     *)
(* changed the target (ScaleToZero, ScaleFromZero) or the primary          *)
(* (Promote) between the operation's read and its write, the update is     *)
(* rejected, the operation returns an error, the other writer's change     *)
(* stays in the store, and the operation issues no second update.          *)
(***************************************************************************)
C19_ConflictSurfaced ==
    (/\ last.op \in {"ScaleToZero", "ScaleFromZero", "Promote"}
     /\ last.fetched # NoObject
     /\ pre[last.fetched.name] # last.fetched) =>
        /\ last.err # ""
        /\ store = pre
        /\ Cardinality(CallsOf("Update", last.fetched.name)) <= 1
        /\ \A u \in CallsOf("Update", last.fetched.name) :
              calls[u].err \in {"Conflict", "Unavailable"}

\* a ScaleToZero whose update was rejected: the target moved to image v2
\* after it was read, and is stored at v2 without the marker
C19_Witness ==
    /\ last.op = "ScaleToZero" /\ last.err # ""
    /\ last.fetched.name = TargetName
    /\ last.fetched.podSpec.image = "v1"
    /\ \E u \in CallsOf("Update", TargetName) : calls[u].err = "Conflict"
    /\ store[TargetName].podSpec.image = "v2"
    /\ ~HasMarker(store[TargetName])

(***************************************************************************)
(* C21: primary creation validates the strategy the target declares        *)
(* before it creates anything.  Once the target has been read, a target    *)
(* declaring the recreate strategy makes the call fail with nothing        *)
(* created (no primary configs, no primary, store unchanged), and a target *)
(* declaring no strategy or a rolling one passes the validation: the call  *)
(* goes on to look the primary up.                                         *)
(***************************************************************************)
C21_StrategyValidated ==
    (/\ last.op = "Initialize"
     /\ Len(calls) >= 1
     /\ calls[1].call = "Get" /\ calls[1].name = TargetName /\ calls[1].err = "") =>
        /\ pre[TargetName].updateStrategy = RecreateCloneSetUpdateStrategyType =>
              /\ last.err # ""
              /\ ~Issued("CreatePrimaryConfigs", "")
              /\ ~Issued("Create", PrimaryName)
              /\ store = pre
        /\ pre[TargetName].updateStrategy # RecreateCloneSetUpdateStrategyType =>
              Issued("Get", PrimaryName)

====
